---- MODULE Spec2Model ----
(***************************************************************************)
(* Model of the pastebin scraper's main.go: the poll loop of main, the     *)
(* output and error worker goroutines, the signal goroutine, the dedup     *)
(* cache alredyChecked, and the keyword matcher checkKeywords.             *)
(*                                                                         *)
(* Time is the wall clock in whole minutes.  The program only compares     *)
(* differences of time.Now() values, so the model keeps ages (minutes      *)
(* elapsed since a timestamp was taken) rather than absolute timestamps;   *)
(* an age is capped one past the largest value it is compared with.        *)
(*                                                                         *)
(* terminate is a plain bool written by the signal goroutine and read by   *)
(* main without synchronisation.  Each read sees the value before or after *)
(* the write; both orders are interleavings of SigSetTerminate with the    *)
(* reading step.                                                           *)
(***************************************************************************)
EXTENDS Integers, Sequences, FiniteSets, TLC

\* ---- bounds of the model ------------------------------------------------
Keys == {"k1", "k2"}          \* paste keys the list endpoint may return
MaxList == 2                  \* longest paste list returned by one list fetch

\* ---- program constants (minutes) ---------------------------------------
PollInterval == 1             \* lastCheck.Add(1 * time.Minute)
Retention == 10               \* time.Now().Add(-10 * time.Minute)

AgeCap == Retention + 1

VARIABLES
    mainPc,         \* position of main: the poll loop and the shutdown sequence
    sigPc,          \* position of the signal goroutine
    outPc,          \* position of the output worker goroutine
    errPc,          \* position of the error worker goroutine
    terminate,      \* the termination flag
    ctxCancelled,   \* whether cancel() of ctx has been called
    outClosed,      \* whether chanOutput is closed
    errClosed,      \* whether chanError is closed
    pastes,         \* the list of the current cycle (sequence of keys)
    idx,            \* position of the item loop in pastes
    alredyChecked,  \* dedup cache: key -> age of its timestamp
    sinceCheck,     \* age of lastCheck
    Mailonerror,    \* config.Mailonerror
    interrupted,    \* history: the OS has delivered an interrupt
    fetchAge,       \* history: key -> age of its latest item fetch start
    finishedAfter,  \* history: item fetches that returned after terminate was set
    cycleFailed,    \* history: the list fetch of the current cycle failed
    outPending,     \* history: pastes handed to the output worker, send not yet attempted
    errPending,     \* history: errors handed to the error worker, not yet logged
    body,           \* matcher: the body under evaluation
    keywordsRegex,  \* matcher: the compiled configuration
    result          \* matcher: the latest result of checkKeywords

vars == <<mainPc, sigPc, outPc, errPc, terminate, ctxCancelled, outClosed,
          errClosed, pastes, idx, alredyChecked, sinceCheck, Mailonerror,
          interrupted, fetchAge, finishedAfter, cycleFailed,
          outPending, errPending, body, keywordsRegex, result>>

mainVars == <<mainPc, pastes, idx, alredyChecked, sinceCheck>>
workerVars == <<outPc, errPc>>
sigVars == <<sigPc, terminate, interrupted>>
chanVars == <<outClosed, errClosed, ctxCancelled>>
histVars == <<fetchAge, finishedAfter, cycleFailed, outPending, errPending>>
matchVars == <<body, keywordsRegex, result>>

Min(a, b) == IF a < b THEN a ELSE b

\* ---- checkKeywords and checkExceptions ----------------------------------
\* A string is a sequence of characters; a body is the sequence of its lines
\* (the text between "\n" separators), which is what (?m)^...$ ranges over.
MaxLineLen == 2               \* longest line of a body
MaxLines == 2                 \* most lines of a body

Alphabet == {"k", "K", "e", " "}

\* \w of the regexp syntax: [0-9A-Za-z_]
IsWord(c) == c \in {"k", "K", "e"}

\* unicode.IsSpace, as used by strings.TrimSpace
IsSpace(c) == c = " "

\* case folding of the (?i) flag
Fold(c) == IF c = "K" THEN "k" ELSE c

WordAt(s, i) == i >= 1 /\ i <= Len(s) /\ IsWord(s[i])

\* \b: exactly one of the characters around position i is a word character
Boundary(s, i) == WordAt(s, i - 1) # WordAt(s, i)

\* \bKEYWORD matches in line s starting at character i
MatchAt(s, k, i) ==
    /\ Boundary(s, i)
    /\ \A j \in 1..Len(k) : Fold(s[i + j - 1]) = Fold(k[j])

\* the line s matches ^(.*\bKEYWORD.*)$
LineMatches(s, k) == \E i \in 1..(Len(s) - Len(k) + 1) : MatchAt(s, k, i)

\* the leftmost-first search of the regexp engine: the lines from the n-th on
\* are tried in order and the first that matches is the result
RECURSIVE firstMatchFrom(_, _, _)
firstMatchFrom(b, k, n) ==
    IF n > Len(b) THEN 0
    ELSE IF LineMatches(b[n], k) THEN n
    ELSE firstMatchFrom(b, k, n + 1)

\* the search that returns the last matching line instead of the first
FindLastSubmatch(b, k) ==
    LET hits == {n \in 1..Len(b) : LineMatches(b[n], k)}
    IN  IF hits = {} THEN 0
        ELSE CHOOSE n \in hits : \A m \in hits : n >= m

\* regexp.FindStringSubmatch: the leftmost match, i.e. the first matching
\* line; 0 stands for the nil result
FindStringSubmatch(b, k) == firstMatchFrom(b, k, 1)

RECURSIVE TrimLeft(_)
TrimLeft(s) ==
    IF s # <<>> /\ IsSpace(Head(s)) THEN TrimLeft(Tail(s)) ELSE s

RECURSIVE TrimRight(_)
TrimRight(s) ==
    IF s # <<>> /\ IsSpace(s[Len(s)])
    THEN TrimRight(SubSeq(s, 1, Len(s) - 1))
    ELSE s

TrimSpace(s) == TrimRight(TrimLeft(s))

\* strings.Contains
Contains(s, x) ==
    \E i \in 0..(Len(s) - Len(x)) : SubSeq(s, i + 1, i + Len(x)) = x

checkExceptions(s, exceptions) ==
    \E n \in 1..Len(exceptions) : Contains(s, exceptions[n])

NoResult == [status |-> FALSE, found |-> <<>>, evaluated |-> FALSE]

\* the iteration without the exception check
checkKeywordNoExceptions(b, kr, k, acc) ==
    LET n == FindStringSubmatch(b, k)
    IN  IF n = 0 THEN acc
        ELSE [status |-> TRUE,
              found |-> [x \in DOMAIN acc.found \cup {k} |->
                           IF x = k THEN TrimSpace(b[n]) ELSE acc.found[x]],
              evaluated |-> TRUE]

\* an exception on one keyword discards the hits collected so far
checkKeywordSuppressAll(b, kr, k, acc) ==
    LET n == FindStringSubmatch(b, k)
    IN  IF n = 0 THEN acc
        ELSE LET match == TrimSpace(b[n])
             IN  IF ~checkExceptions(match, kr[k].exceptions)
                 THEN [status |-> TRUE,
                       found |-> [x \in DOMAIN acc.found \cup {k} |->
                                    IF x = k THEN match ELSE acc.found[x]],
                       evaluated |-> TRUE]
                 ELSE [status |-> FALSE, found |-> <<>>, evaluated |-> TRUE]

\* one iteration of the range loop of checkKeywords, for keyword k
checkKeyword(b, kr, k, acc) ==
    LET n == FindStringSubmatch(b, k)
    IN  IF n = 0 THEN acc
        ELSE LET match == TrimSpace(b[n])
             IN  IF ~checkExceptions(match, kr[k].exceptions)
                 THEN [status |-> TRUE,
                       found |-> [x \in DOMAIN acc.found \cup {k} |->
                                    IF x = k THEN match ELSE acc.found[x]],
                       evaluated |-> TRUE]
                 ELSE acc

\* the range loop over keywordsRegex, visiting the keywords in the given order
RECURSIVE rangeKeywords(_, _, _, _)
rangeKeywords(b, kr, order, acc) ==
    IF order = <<>> THEN acc
    ELSE rangeKeywords(b, kr, Tail(order), checkKeyword(b, kr, Head(order), acc))

checkKeywords(b, kr, order) ==
    rangeKeywords(b, kr, order,
                  [status |-> FALSE, found |-> [x \in {} |-> <<>>], evaluated |-> TRUE])

\* the orders in which a range over the map kr may visit its keys
Orders(kr) ==
    {o \in [1..Cardinality(DOMAIN kr) -> DOMAIN kr] :
        \A i, j \in DOMAIN o : i # j => o[i] # o[j]}

\* the configuration: keyword -> compiled pattern (the keyword itself) and exceptions
Config ==
    [k \in {<<"k">>, <<"e">>} |->
        IF k = <<"k">> THEN [exceptions |-> << <<"e">> >>]
        ELSE [exceptions |-> << <<"K">>, <<"e", "e">> >>]]

LinesOfLen(n) == [1..n -> Alphabet]
Lines == UNION {LinesOfLen(n) : n \in 0..MaxLineLen}
Bodies == UNION {[1..n -> Lines] : n \in 0..MaxLines}

\* ---- the external collaborators of main ---------------------------------
\* paste lists the list endpoint may return: keys are unique identifiers, so a
\* list names no key twice
Lists ==
    UNION {{l \in [1..n -> Keys] : \A i, j \in 1..n : i # j => l[i] # l[j]} :
              n \in 0..MaxList}

\* bodies the item endpoint returns in the pipeline
SampleBodies == {<<>>, << <<"k">> >>, << <<"k", "e">> >>, << <<"e", "k">>, <<" ", "K">> >>}

\* fetchPasteList: the list on success, no items and an error on failure
fetchPasteList(ok, list) ==
    IF ok THEN [pastes |-> list, err |-> FALSE]
    ELSE [pastes |-> <<>>, err |-> TRUE]

\* fetchPasteList records the time of the list fetch in lastCheck
lastCheckNow == 0

\* p.fetch records the key in the dedup cache with the current time
markSeen(cache, key) ==
    [x \in DOMAIN cache \cup {key} |-> IF x = key THEN 0 ELSE cache[x]]

\* p.fetch evaluates the fetched body and forwards a match to chanOutput
fetchMatches(b, kr) == \E o \in Orders(kr) : checkKeywords(b, kr, o).status

\* a network call made with ctx fails once ctx is cancelled
CallOutcomes == IF ctxCancelled THEN {FALSE} ELSE BOOLEAN

\* ---- the clock ---------------------------------------------------------
Older(ages) == [x \in DOMAIN ages |-> Min(ages[x] + 1, AgeCap)]

\* main is in a step that takes time: a sleep, a network call or a blocked send
Waiting ==
    mainPc \in {"sleeping", "listing", "fetching", "delay",
                "listErrSend", "fetchErrSend", "outSend"}

Tick ==
    /\ Waiting
    /\ alredyChecked' = Older(alredyChecked)
    /\ fetchAge' = Older(fetchAge)
    /\ sinceCheck' = Min(sinceCheck + 1, PollInterval)
    /\ UNCHANGED <<mainPc, pastes, idx, workerVars, sigVars, chanVars,
                   Mailonerror, finishedAfter, cycleFailed, outPending,
                   errPending, matchVars>>

\* ---- the signal goroutine ----------------------------------------------
\* the process lives until main returns
Running == mainPc # "returned"

\* the OS delivers os.Interrupt: signal.Notify's send on the unbuffered
\* chanSignal does not block, so the signal is dropped unless the goroutine
\* is waiting in the range over chanSignal
Interrupt ==
    /\ Running
    /\ interrupted' = TRUE
    /\ sigPc' = IF sigPc = "recv" THEN "print" ELSE sigPc
    /\ UNCHANGED <<mainVars, workerVars, terminate, chanVars, Mailonerror,
                   histVars, matchVars>>

SigStart ==
    /\ Running
    /\ sigPc = "start"
    /\ sigPc' = "recv"
    /\ UNCHANGED <<mainVars, workerVars, terminate, interrupted,
                   chanVars, Mailonerror, histVars, matchVars>>

\* the body of the range loop; chanSignal is never closed, so the loop never
\* ends and the cancel() after it is never reached
SigSetTerminate ==
    /\ Running
    /\ sigPc = "print"
    /\ terminate' = TRUE
    /\ sigPc' = "recv"
    /\ UNCHANGED <<mainVars, workerVars, interrupted, chanVars,
                   Mailonerror, histVars, matchVars>>

\* ---- main: the poll loop -----------------------------------------------
Bump(n) == Min(n + 1, 2)

\* the item fetch p.fetch returns: counted when terminate is already set
FetchFinished == IF terminate THEN Bump(finishedAfter) ELSE finishedAfter

\* for { if terminate { break }; sleepTime := time.Until(lastCheck.Add(1 * time.Minute));
\* with no time left to sleep, fetchPasteList(ctx) is called at once
LoopTop ==
    /\ mainPc = "top"
    /\ IF terminate
       THEN mainPc' = "closeOut" /\ UNCHANGED <<sinceCheck, cycleFailed>>
       ELSE IF sinceCheck < PollInterval
       THEN mainPc' = "sleeping" /\ cycleFailed' = FALSE /\ UNCHANGED sinceCheck
       ELSE mainPc' = "listing" /\ cycleFailed' = FALSE /\ sinceCheck' = lastCheckNow
    /\ UNCHANGED <<pastes, idx, alredyChecked, workerVars, sigVars,
                   chanVars, Mailonerror, fetchAge, finishedAfter, outPending,
                   errPending, matchVars>>

\* time.Sleep(sleepTime) returns once the minute since lastCheck is over, and
\* fetchPasteList(ctx) is called
Sleep ==
    /\ mainPc = "sleeping"
    /\ sinceCheck >= PollInterval
    /\ mainPc' = "listing"
    /\ sinceCheck' = lastCheckNow
    /\ UNCHANGED <<pastes, idx, alredyChecked, workerVars, sigVars,
                   chanVars, Mailonerror, histVars, matchVars>>

\* pastes, err := fetchPasteList(ctx) returns
FetchListReturn ==
    /\ mainPc = "listing"
    /\ \E ok \in CallOutcomes, list \in Lists :
          LET r == fetchPasteList(ok, list)
          IN  /\ pastes' = r.pastes
              /\ cycleFailed' = r.err
              /\ mainPc' = IF r.err THEN "listErrSend" ELSE "items"
    /\ idx' = 1
    /\ UNCHANGED <<alredyChecked, sinceCheck, workerVars, sigVars, chanVars,
                   Mailonerror, fetchAge, finishedAfter, outPending,
                   errPending, matchVars>>

\* the failed cycle is abandoned after the report: back to the top of the loop
SendListErrorContinue ==
    /\ mainPc = "listErrSend"
    /\ errPc = "recv"
    /\ ~errClosed
    /\ mainPc' = "top"
    /\ errPc' = "log"
    /\ errPending' = errPending + 1
    /\ UNCHANGED <<pastes, idx, alredyChecked, sinceCheck, outPc, sigVars,
                   chanVars, Mailonerror, fetchAge, finishedAfter, cycleFailed,
                   outPending, matchVars>>

\* chanError <- fmt.Errorf("fetchPasteList: %v", err), taken by the error worker
SendListError ==
    /\ mainPc = "listErrSend"
    /\ errPc = "recv"
    /\ ~errClosed
    /\ mainPc' = "items"
    /\ errPc' = "log"
    /\ errPending' = errPending + 1
    /\ UNCHANGED <<pastes, idx, alredyChecked, sinceCheck, outPc, sigVars,
                   chanVars, Mailonerror, fetchAge, finishedAfter, cycleFailed,
                   outPending, matchVars>>

\* the range over pastes is exhausted
ItemsDone ==
    /\ mainPc = "items"
    /\ idx > Len(pastes)
    /\ mainPc' = "expire"
    /\ UNCHANGED <<pastes, idx, alredyChecked, sinceCheck, workerVars, sigVars,
                   chanVars, Mailonerror, histVars, matchVars>>

\* if terminate { break }
ItemsBreak ==
    /\ mainPc = "items"
    /\ idx <= Len(pastes)
    /\ terminate
    /\ mainPc' = "expire"
    /\ UNCHANGED <<pastes, idx, alredyChecked, sinceCheck, workerVars, sigVars,
                   chanVars, Mailonerror, histVars, matchVars>>

\* the key is in alredyChecked: skipped, no fetch and no sleep
ItemSkip ==
    /\ mainPc = "items"
    /\ idx <= Len(pastes)
    /\ ~terminate
    /\ pastes[idx] \in DOMAIN alredyChecked
    /\ idx' = idx + 1
    /\ UNCHANGED <<mainPc, pastes, alredyChecked, sinceCheck, workerVars,
                   sigVars, chanVars, Mailonerror, histVars, matchVars>>

\* the item loop without its check of terminate
ItemFetchUnchecked ==
    /\ mainPc = "items"
    /\ idx <= Len(pastes)
    /\ pastes[idx] \notin DOMAIN alredyChecked
    /\ mainPc' = "fetching"
    /\ alredyChecked' = markSeen(alredyChecked, pastes[idx])
    /\ fetchAge' = markSeen(fetchAge, pastes[idx])
    /\ UNCHANGED <<pastes, idx, sinceCheck, workerVars, sigVars, chanVars,
                   Mailonerror, finishedAfter, cycleFailed, outPending,
                   errPending, matchVars>>

\* the fetch is started and not waited for: the loop goes to the next item
ItemFetchAsync ==
    /\ mainPc = "items"
    /\ idx <= Len(pastes)
    /\ ~terminate
    /\ pastes[idx] \notin DOMAIN alredyChecked
    /\ idx' = idx + 1
    /\ alredyChecked' = markSeen(alredyChecked, pastes[idx])
    /\ fetchAge' = markSeen(fetchAge, pastes[idx])
    /\ UNCHANGED <<mainPc, pastes, sinceCheck, workerVars, sigVars, chanVars,
                   Mailonerror, finishedAfter, cycleFailed, outPending,
                   errPending, matchVars>>

\* the key is not in alredyChecked: p.fetch(ctx) is called
ItemFetch ==
    /\ mainPc = "items"
    /\ idx <= Len(pastes)
    /\ ~terminate
    /\ pastes[idx] \notin DOMAIN alredyChecked
    /\ mainPc' = "fetching"
    /\ alredyChecked' = markSeen(alredyChecked, pastes[idx])
    /\ fetchAge' = markSeen(fetchAge, pastes[idx])
    /\ UNCHANGED <<pastes, idx, sinceCheck, workerVars, sigVars, chanVars,
                   Mailonerror, finishedAfter, cycleFailed, outPending,
                   errPending, matchVars>>

\* the item request of p.fetch fails: p.fetch returns the error
FetchFail ==
    /\ mainPc = "fetching"
    /\ mainPc' = "fetchErrSend"
    /\ finishedAfter' = FetchFinished
    /\ UNCHANGED <<pastes, idx, alredyChecked, sinceCheck, workerVars, sigVars,
                   chanVars, Mailonerror, fetchAge, cycleFailed, outPending,
                   errPending, matchVars>>

\* the item request of p.fetch succeeds and the body has no hit
FetchNoMatch ==
    /\ mainPc = "fetching"
    /\ ~ctxCancelled
    /\ \E b \in SampleBodies : ~fetchMatches(b, keywordsRegex)
    /\ mainPc' = "delay"
    /\ finishedAfter' = FetchFinished
    /\ UNCHANGED <<pastes, idx, alredyChecked, sinceCheck, workerVars, sigVars,
                   chanVars, Mailonerror, fetchAge, cycleFailed, outPending,
                   errPending, matchVars>>

\* the item request of p.fetch succeeds and the body has a hit
FetchMatch ==
    /\ mainPc = "fetching"
    /\ ~ctxCancelled
    /\ \E b \in SampleBodies : fetchMatches(b, keywordsRegex)
    /\ mainPc' = "outSend"
    /\ UNCHANGED <<pastes, idx, alredyChecked, sinceCheck, workerVars, sigVars,
                   chanVars, Mailonerror, histVars, matchVars>>

\* chanOutput <- *p inside p.fetch, taken by the output worker
SendOutput ==
    /\ mainPc = "outSend"
    /\ outPc = "recv"
    /\ ~outClosed
    /\ mainPc' = "delay"
    /\ outPc' = "send"
    /\ outPending' = outPending + 1
    /\ finishedAfter' = FetchFinished
    /\ UNCHANGED <<pastes, idx, alredyChecked, sinceCheck, errPc, sigVars,
                   chanVars, Mailonerror, fetchAge, cycleFailed, errPending,
                   matchVars>>

\* the item-fetch error ends the poll loop after the report
SendFetchErrorBreak ==
    /\ mainPc = "fetchErrSend"
    /\ errPc = "recv"
    /\ ~errClosed
    /\ mainPc' = "closeOut"
    /\ errPc' = "log"
    /\ errPending' = errPending + 1
    /\ UNCHANGED <<pastes, idx, alredyChecked, sinceCheck, outPc, sigVars,
                   chanVars, Mailonerror, fetchAge, finishedAfter, cycleFailed,
                   outPending, matchVars>>

\* the item-fetch error is reported and the loop goes on without the delay
SendFetchErrorContinue ==
    /\ mainPc = "fetchErrSend"
    /\ errPc = "recv"
    /\ ~errClosed
    /\ mainPc' = "items"
    /\ idx' = idx + 1
    /\ errPc' = "log"
    /\ errPending' = errPending + 1
    /\ UNCHANGED <<pastes, alredyChecked, sinceCheck, outPc, sigVars,
                   chanVars, Mailonerror, fetchAge, finishedAfter, cycleFailed,
                   outPending, matchVars>>

\* chanError <- fmt.Errorf("fetch: %v", err), taken by the error worker
SendFetchError ==
    /\ mainPc = "fetchErrSend"
    /\ errPc = "recv"
    /\ ~errClosed
    /\ mainPc' = "delay"
    /\ errPc' = "log"
    /\ errPending' = errPending + 1
    /\ UNCHANGED <<pastes, idx, alredyChecked, sinceCheck, outPc, sigVars,
                   chanVars, Mailonerror, fetchAge, finishedAfter, cycleFailed,
                   outPending, matchVars>>

\* time.Sleep(1 * time.Second), then the next item
ItemDelay ==
    /\ mainPc = "delay"
    /\ mainPc' = "items"
    /\ idx' = idx + 1
    /\ UNCHANGED <<pastes, alredyChecked, sinceCheck, workerVars, sigVars,
                   chanVars, Mailonerror, histVars, matchVars>>

\* the sweep with After for Before: the entries younger than the threshold go
expireYoung(cache) == [x \in {y \in DOMAIN cache : cache[y] > Retention} |-> cache[x]]

\* the sweep with a threshold no entry is older than: nothing is deleted
expireNone(cache) == cache

\* the sweep that also deletes the entry exactly as old as the threshold
expireAtRetention(cache) == [x \in {y \in DOMAIN cache : cache[y] < Retention} |-> cache[x]]

\* delete every entry whose timestamp is before now - 10 minutes
expire(cache) == [x \in {y \in DOMAIN cache : ~(cache[y] > Retention)} |-> cache[x]]

Expire ==
    /\ mainPc = "expire"
    /\ alredyChecked' = expire(alredyChecked)
    /\ mainPc' = "top"
    /\ UNCHANGED <<pastes, idx, sinceCheck, workerVars, sigVars, chanVars,
                   Mailonerror, histVars, matchVars>>

\* ---- main: the shutdown sequence ---------------------------------------
\* close(chanOutput)
CloseOutput ==
    /\ mainPc = "closeOut"
    /\ outClosed' = TRUE
    /\ mainPc' = "waitOut"
    /\ UNCHANGED <<pastes, idx, alredyChecked, sinceCheck, workerVars, sigVars,
                   errClosed, ctxCancelled, Mailonerror, histVars, matchVars>>

\* main goes on to close(chanError) without waiting for the output worker
WaitOutputSkipped ==
    /\ mainPc = "waitOut"
    /\ mainPc' = "closeErr"
    /\ UNCHANGED <<pastes, idx, alredyChecked, sinceCheck, workerVars, sigVars,
                   chanVars, Mailonerror, histVars, matchVars>>

\* wgOutput.Wait()
WaitOutput ==
    /\ mainPc = "waitOut"
    /\ outPc = "done"
    /\ mainPc' = "closeErr"
    /\ UNCHANGED <<pastes, idx, alredyChecked, sinceCheck, workerVars, sigVars,
                   chanVars, Mailonerror, histVars, matchVars>>

\* close(chanError)
CloseError ==
    /\ mainPc = "closeErr"
    /\ errClosed' = TRUE
    /\ mainPc' = "waitErr"
    /\ UNCHANGED <<pastes, idx, alredyChecked, sinceCheck, workerVars, sigVars,
                   outClosed, ctxCancelled, Mailonerror, histVars, matchVars>>

\* main returns without waiting for the error worker
WaitErrorSkipped ==
    /\ mainPc = "waitErr"
    /\ mainPc' = "returned"
    /\ ctxCancelled' = TRUE
    /\ UNCHANGED <<pastes, idx, alredyChecked, sinceCheck, workerVars, sigVars,
                   outClosed, errClosed, Mailonerror, histVars, matchVars>>

\* wgError.Wait(), then main returns and the deferred cancel() runs
WaitError ==
    /\ mainPc = "waitErr"
    /\ errPc = "done"
    /\ mainPc' = "returned"
    /\ ctxCancelled' = TRUE
    /\ UNCHANGED <<pastes, idx, alredyChecked, sinceCheck, workerVars, sigVars,
                   outClosed, errClosed, Mailonerror, histVars, matchVars>>

\* ---- the output worker -------------------------------------------------
\* err = p.sendPasteMessage() returns
SendPasteMessage ==
    /\ Running
    /\ outPc = "send"
    /\ outPending' = outPending - 1
    /\ \E ok \in BOOLEAN : outPc' = IF ok THEN "recv" ELSE "errSend"
    /\ UNCHANGED <<mainVars, errPc, sigVars, chanVars, Mailonerror, fetchAge,
                   finishedAfter, cycleFailed, errPending, matchVars>>

\* the failed send is reported and then tried again
OutSendErrorRetry ==
    /\ Running
    /\ outPc = "errSend"
    /\ errPc = "recv"
    /\ ~errClosed
    /\ outPc' = "send"
    /\ outPending' = outPending + 1
    /\ errPc' = "log"
    /\ errPending' = errPending + 1
    /\ UNCHANGED <<mainVars, sigVars, chanVars, Mailonerror, fetchAge,
                   finishedAfter, cycleFailed, matchVars>>

\* chanError <- fmt.Errorf("sendPasteMessage: %v", err), taken by the error worker
OutSendError ==
    /\ Running
    /\ outPc = "errSend"
    /\ errPc = "recv"
    /\ ~errClosed
    /\ outPc' = "recv"
    /\ errPc' = "log"
    /\ errPending' = errPending + 1
    /\ UNCHANGED <<mainVars, sigVars, chanVars, Mailonerror, fetchAge,
                   finishedAfter, cycleFailed, outPending, matchVars>>

\* the range over chanOutput ends on the closed channel; wgOutput.Done()
OutWorkerExit ==
    /\ Running
    /\ outPc = "recv"
    /\ outClosed
    /\ outPc' = "done"
    /\ UNCHANGED <<mainVars, errPc, sigVars, chanVars, Mailonerror, histVars,
                   matchVars>>

\* ---- the error worker --------------------------------------------------
\* log.Printf("%v", err); if config.Mailonerror
ErrLog ==
    /\ Running
    /\ errPc = "log"
    /\ errPending' = errPending - 1
    /\ errPc' = IF Mailonerror THEN "mail" ELSE "recv"
    /\ UNCHANGED <<mainVars, outPc, sigVars, chanVars, Mailonerror, fetchAge,
                   finishedAfter, cycleFailed, outPending, matchVars>>

\* a failed escalation is sent on chanError by the error worker itself, the
\* only receiver of that channel
SendErrorMessageSelfSend ==
    /\ Running
    /\ errPc = "mail"
    /\ \E ok \in BOOLEAN : errPc' = IF ok THEN "recv" ELSE "selfSend"
    /\ UNCHANGED <<mainVars, outPc, sigVars, chanVars, Mailonerror, histVars,
                   matchVars>>

\* a failed escalation is handled as a new operational error
SendErrorMessageRequeue ==
    /\ Running
    /\ errPc = "mail"
    /\ \E ok \in BOOLEAN :
          IF ok THEN errPc' = "recv" /\ errPending' = errPending
          ELSE errPc' = "log" /\ errPending' = errPending + 1
    /\ UNCHANGED <<mainVars, outPc, sigVars, chanVars, Mailonerror, fetchAge,
                   finishedAfter, cycleFailed, outPending, matchVars>>

\* err2 := sendErrorMessage(err) returns; a failure is only logged
SendErrorMessage ==
    /\ Running
    /\ errPc = "mail"
    /\ errPc' = "recv"
    /\ UNCHANGED <<mainVars, outPc, sigVars, chanVars, Mailonerror, histVars,
                   matchVars>>

\* the range over chanError ends on the closed channel; wgError.Done()
ErrWorkerExit ==
    /\ Running
    /\ errPc = "recv"
    /\ errClosed
    /\ errPc' = "done"
    /\ UNCHANGED <<mainVars, outPc, sigVars, chanVars, Mailonerror, histVars,
                   matchVars>>

\* ---- the pipeline ------------------------------------------------------
NoAges == [x \in {} |-> 0]

\* the state after signal.Notify and the three go statements; lastCheck is the
\* zero time, more than a minute ago
Init ==
    /\ mainPc = "top"
    /\ sigPc = "start"
    /\ outPc = "recv"
    /\ errPc = "recv"
    /\ terminate = FALSE
    /\ ctxCancelled = FALSE
    /\ outClosed = FALSE
    /\ errClosed = FALSE
    /\ pastes = <<>>
    /\ idx = 1
    /\ alredyChecked = NoAges
    /\ sinceCheck = PollInterval
    /\ Mailonerror \in BOOLEAN
    /\ interrupted = FALSE
    /\ fetchAge = NoAges
    /\ finishedAfter = 0
    /\ cycleFailed = FALSE
    /\ outPending = 0
    /\ errPending = 0
    /\ body = <<>>
    /\ keywordsRegex = Config
    /\ result = NoResult

Next ==
    \/ Tick
    \/ Interrupt
    \/ SigStart
    \/ SigSetTerminate
    \/ LoopTop
    \/ Sleep
    \/ FetchListReturn
    \/ SendListError
    \/ ItemsDone
    \/ ItemsBreak
    \/ ItemSkip
    \/ ItemFetch
    \/ FetchFail
    \/ FetchNoMatch
    \/ FetchMatch
    \/ SendOutput
    \/ SendFetchError
    \/ ItemDelay
    \/ Expire
    \/ CloseOutput
    \/ WaitOutput
    \/ CloseError
    \/ WaitError
    \/ SendPasteMessage
    \/ OutSendError
    \/ OutWorkerExit
    \/ ErrLog
    \/ SendErrorMessage
    \/ ErrWorkerExit

Spec == Init /\ [][Next]_vars

TypeOK ==
    /\ mainPc \in {"top", "sleeping", "listing", "listErrSend", "items",
                   "fetching", "fetchErrSend", "outSend", "delay", "expire",
                   "closeOut", "waitOut", "closeErr", "waitErr", "returned"}
    /\ sigPc \in {"start", "recv", "print"}
    /\ outPc \in {"recv", "send", "errSend", "done"}
    /\ errPc \in {"recv", "log", "mail", "done"}
    /\ outPending \in 0..1
    /\ errPending \in 0..1

\* the scheduler runs every goroutine that can take a step, time passes, and
\* every network call and sink send returns; the OS is not obliged to interrupt
MainStep ==
    \/ LoopTop \/ Sleep \/ FetchListReturn \/ SendListError \/ ItemsDone
    \/ ItemsBreak \/ ItemSkip \/ ItemFetch \/ FetchFail \/ FetchNoMatch
    \/ FetchMatch \/ SendOutput \/ SendFetchError \/ ItemDelay \/ Expire
    \/ CloseOutput \/ WaitOutput \/ CloseError \/ WaitError
OutStep == SendPasteMessage \/ OutSendError \/ OutWorkerExit
ErrStep == ErrLog \/ SendErrorMessage \/ ErrWorkerExit
SigStep == SigStart \/ SigSetTerminate

FairSpec ==
    /\ Spec
    /\ WF_vars(MainStep)
    /\ WF_vars(OutStep)
    /\ WF_vars(ErrStep)
    /\ WF_vars(SigStep)
    /\ WF_vars(Tick)

\* ---- the matcher on its own: checkKeywords applied to every bounded body ----
InitMatch ==
    /\ mainPc = "top"
    /\ sigPc = "start"
    /\ outPc = "recv"
    /\ errPc = "recv"
    /\ terminate = FALSE
    /\ ctxCancelled = FALSE
    /\ outClosed = FALSE
    /\ errClosed = FALSE
    /\ pastes = <<>>
    /\ idx = 1
    /\ alredyChecked = NoAges
    /\ sinceCheck = PollInterval
    /\ Mailonerror = FALSE
    /\ interrupted = FALSE
    /\ fetchAge = NoAges
    /\ finishedAfter = 0
    /\ cycleFailed = FALSE
    /\ outPending = 0
    /\ errPending = 0
    /\ body \in Bodies
    /\ keywordsRegex = Config
    /\ result = NoResult

\* status, found := checkKeywords(body), the map ranged over in any order
Evaluate ==
    /\ ~result.evaluated
    /\ \E o \in Orders(keywordsRegex) : result' = checkKeywords(body, keywordsRegex, o)
    /\ UNCHANGED <<mainVars, workerVars, sigVars, chanVars, Mailonerror,
                   histVars, body, keywordsRegex>>

NextMatch == Evaluate

SpecMatch == InitMatch /\ [][NextMatch]_vars

\* ---- claims -------------------------------------------------------------
\* the poll loop has been left: main is in its shutdown sequence or has returned
LoopLeft == mainPc \in {"closeOut", "waitOut", "closeErr", "waitErr", "returned"}

\* C1: no task is ever about to send on a closed route: chanOutput is closed
\* only after the poll loop has been left, chanError only after the poll loop
\* has been left and the output worker has terminated.
C1_NoSendOnClosedRoute ==
    /\ mainPc = "outSend" => ~outClosed
    /\ mainPc \in {"listErrSend", "fetchErrSend"} => ~errClosed
    /\ outPc = "errSend" => ~errClosed
    /\ outClosed => LoopLeft
    /\ errClosed => LoopLeft /\ outPc = "done"

\* both routes are closed and the output worker, a producer of chanError, is gone
C1_Witness == outClosed /\ errClosed /\ outPc = "done" /\ cycleFailed

\* C2: when main returns, every paste put on chanOutput has had its send
\* attempted and every error put on chanError has been logged: both workers
\* have left their loops with nothing in hand.
C2_RoutesDrained ==
    mainPc = "returned" =>
        /\ outPending = 0
        /\ errPending = 0
        /\ outPc = "done"
        /\ errPc = "done"

\* main has returned after a cycle whose list-fetch error went to chanError
C2_Witness == mainPc = "returned" /\ cycleFailed /\ Mailonerror

\* C3: once terminate is set, the poll loop starts no list fetch.
C3_NoListFetchAfterTerminate ==
    [][terminate => ~(mainPc # "listing" /\ mainPc' = "listing")]_vars

\* C4: once terminate is set, at most one item fetch returns.
C4_AtMostOneFetchAfterTerminate == finishedAfter <= 1

\* an item fetch that was in flight when terminate was set has returned, with
\* a further item of the list still unfetched
C4_Witness ==
    /\ finishedAfter = 1
    /\ mainPc = "items"
    /\ idx <= Len(pastes)
    /\ pastes[idx] \notin DOMAIN alredyChecked

\* C5: once terminate is set, the context of a list or item fetch in flight is
\* cancelled.
C5_ContextCancelledOnInterrupt ==
    (terminate /\ mainPc \in {"listing", "fetching"}) => ctxCancelled

\* C6: under fair scheduling, with every network call and sink send returning,
\* an interrupt delivered at any point after signal.Notify eventually leads to
\* main returning, with both routes closed and both workers terminated.
C6_InterruptLeadsToExit ==
    interrupted ~> (mainPc = "returned" /\ outClosed /\ errClosed
                    /\ outPc = "done" /\ errPc = "done")

\* the item loop stands at a key whose latest fetch began less than the
\* retention window ago
RecentItem ==
    /\ mainPc = "items"
    /\ idx <= Len(pastes)
    /\ pastes[idx] \in DOMAIN fetchAge
    /\ fetchAge[pastes[idx]] < Retention

\* C7: a key whose fetch began less than 10 minutes ago is not fetched again:
\* its occurrence in a list is passed over with no fetch and no delay (the item
\* loop moves on, or is left on terminate), and the cache keeps its entry.
C7_NoRefetchWithinWindow ==
    [][RecentItem =>
          /\ mainPc' \in {"items", "expire"}
          /\ alredyChecked' = alredyChecked
          /\ fetchAge' = fetchAge]_vars

\* a later cycle lists a key fetched nine minutes before
C7_Witness == RecentItem /\ fetchAge[pastes[idx]] = Retention - 1 /\ ~terminate

\* the item loop stands at a key that was fetched more than the retention
\* window ago and has been swept from the cache
ExpiredItem ==
    /\ mainPc = "items"
    /\ idx <= Len(pastes)
    /\ ~terminate
    /\ pastes[idx] \in DOMAIN fetchAge
    /\ pastes[idx] \notin DOMAIN alredyChecked

\* C8: an expiry pass leaves no entry older than 10 minutes in the cache, and
\* the next cycle that lists a swept key fetches it again.
C8_ExpiredIsRefetched ==
    [][/\ (mainPc = "expire" /\ mainPc' = "top") =>
              \A k \in DOMAIN alredyChecked' : alredyChecked'[k] <= Retention
       /\ (mainPc = "top" /\ mainPc' # "top") =>
              \A k \in DOMAIN fetchAge :
                  fetchAge[k] > Retention => k \notin DOMAIN alredyChecked'
       /\ (ExpiredItem /\ mainPc' # mainPc) => mainPc' = "fetching"]_vars

\* a key fetched more than 10 minutes ago is listed again after its entry was swept
C8_Witness == ExpiredItem /\ fetchAge[pastes[idx]] > Retention

\* C9: in a cycle whose list fetch failed the error goes to chanError, no item
\* is fetched (the item set is empty), the expiry sweep runs, and the poll loop
\* returns to its top.
C9_FailedListStillExpires ==
    [][/\ (cycleFailed' /\ ~cycleFailed) =>
              mainPc = "listing" /\ mainPc' = "listErrSend" /\ pastes' = <<>>
       /\ (cycleFailed /\ mainPc = "listErrSend" /\ mainPc' # mainPc) =>
              mainPc' = "items" /\ errPc = "recv" /\ errPc' = "log"
       /\ (cycleFailed /\ mainPc = "items" /\ mainPc' # mainPc) =>
              mainPc' = "expire"
       /\ (cycleFailed /\ mainPc = "expire" /\ mainPc' # mainPc) =>
              mainPc' = "top" /\ alredyChecked' = expire(alredyChecked)
       /\ cycleFailed' =>
              mainPc' \notin {"sleeping", "listing", "fetching", "fetchErrSend",
                              "outSend", "delay"}]_vars

\* the failed cycle is over: the loop is back at its top with the flag unset,
\* and the sweeps have removed an entry from the cache
C9_Witness ==
    /\ cycleFailed
    /\ mainPc = "top"
    /\ ~terminate
    /\ \E k \in DOMAIN fetchAge : k \notin DOMAIN alredyChecked

\* the line n of the body has keyword k as a delimited substring
HasKeyword(n, k) == LineMatches(body[n], k)

\* the hit the line n calls for: the trimmed line, or no hit when the trimmed
\* line contains an exception of k
LineDecides(n, k) ==
    LET t == TrimSpace(body[n])
    IN  IF checkExceptions(t, keywordsRegex[k].exceptions)
        THEN k \notin DOMAIN result.found
        ELSE k \in DOMAIN result.found /\ result.found[k] = t

\* C10 as claimed: every line that has the keyword decides the keyword's hit.
C10_EveryLineDecides ==
    result.evaluated =>
        \A k \in DOMAIN keywordsRegex : \A n \in 1..Len(body) :
            HasKeyword(n, k) => LineDecides(n, k)

\* C10 as amended: the first line that has the keyword decides the keyword's
\* hit: its trimmed text is the hit unless it contains an exception, and then
\* there is no hit for the keyword, whatever the later lines are; the matched
\* flag is set exactly when there is a hit.
C10_FirstLineDecides ==
    result.evaluated =>
        /\ \A k \in DOMAIN keywordsRegex : \A n \in 1..Len(body) :
              (HasKeyword(n, k) /\ \A m \in 1..(n - 1) : ~HasKeyword(m, k))
                  => LineDecides(n, k)
        /\ \A k \in DOMAIN result.found : \E n \in 1..Len(body) : HasKeyword(n, k)
        /\ result.status = (DOMAIN result.found # {})

\* a body whose first line with the keyword holds an exception and whose second
\* line with the keyword holds none: no hit is reported
C10_Witness ==
    /\ result.evaluated
    /\ \E k \in DOMAIN keywordsRegex :
          /\ Len(body) = 2
          /\ HasKeyword(1, k) /\ HasKeyword(2, k)
          /\ checkExceptions(TrimSpace(body[1]), keywordsRegex[k].exceptions)
          /\ ~checkExceptions(TrimSpace(body[2]), keywordsRegex[k].exceptions)
          /\ k \notin DOMAIN result.found

\* C11: operational failures end nothing: the poll loop is left only with
\* terminate set, and a worker leaves its loop only on its closed route, which
\* main closes only after the poll loop has been left.
C11_FailuresDoNotTerminate ==
    /\ LoopLeft => terminate
    /\ outPc = "done" => outClosed /\ LoopLeft
    /\ errPc = "done" => errClosed /\ LoopLeft

\* an item-fetch error has been handed to the error worker and a delivery
\* failure waits to be reported, with the flag unset and the poll loop going on
C11_Witness ==
    /\ mainPc = "delay"
    /\ errPc = "log"
    /\ outPc = "errSend"
    /\ ~terminate
    /\ ~outClosed

\* C12: the output worker takes a paste only when it has none in hand, makes
\* one send attempt for it, and then either takes the next paste (success, no
\* error) or hands exactly one error to the error worker (failure, no retry).
C12_OneAttemptPerPaste ==
    [][/\ outPending' > outPending =>
              /\ mainPc = "outSend" /\ mainPc' = "delay"
              /\ outPc = "recv" /\ outPc' = "send"
              /\ outPending = 0 /\ outPending' = 1
       /\ (outPc = "send" /\ outPc' # "send") =>
              /\ outPending' = outPending - 1
              /\ outPc' \in {"recv", "errSend"}
              /\ errPending' = errPending
              /\ errPc' = errPc
       /\ (outPc = "send" /\ outPc' = "send") => outPending' = outPending
       /\ (outPc = "errSend" /\ outPc' # "errSend") =>
              /\ outPc' = "recv"
              /\ errPc = "recv" /\ errPc' = "log"
              /\ errPending' = errPending + 1
              /\ outPending' = outPending
       /\ outPc' = "send" => outPending' = 1
       /\ outPc' # "send" => outPending' = 0]_vars

\* a send has failed: its paste is out of hand and its one error waits for the
\* error worker
C12_Witness == outPc = "errSend" /\ outPending = 0 /\ errPc = "mail"

\* a task stands at a send on chanError
ErrSender == mainPc \in {"listErrSend", "fetchErrSend"} \/ outPc = "errSend"

\* C13: the error worker puts nothing on a route: an error enters the error
\* route only from the poll loop or the output worker, and between taking an
\* error and waiting for the next one the error worker logs it once and, with
\* Mailonerror, makes one escalation attempt.
C13_ErrorWorkerNeverProduces ==
    [][/\ errPending' > errPending =>
              /\ ErrSender
              /\ (mainPc' # mainPc \/ outPc' # outPc)
              /\ errPc = "recv" /\ errPc' = "log"
              /\ errPending = 0
       /\ outPending' > outPending => mainPc = "outSend"
       /\ (errPc = "log" /\ errPc' # "log") =>
              /\ errPc' = (IF Mailonerror THEN "mail" ELSE "recv")
              /\ errPending' = errPending - 1
              /\ UNCHANGED <<mainPc, outPc, outPending>>
       /\ (errPc = "mail" /\ errPc' # "mail") =>
              /\ errPc' = "recv"
              /\ UNCHANGED <<mainPc, outPc, outPending, errPending>>]_vars

\* the escalation of a logged error is in flight
C13_Witness == errPc = "mail" /\ errPending = 0 /\ Mailonerror /\ ~ErrSender

\* the key's latest fetch began within the retention window
FetchedInWindow(k) == k \in DOMAIN fetchAge /\ fetchAge[k] <= Retention

\* C14 as stated: in every state a key has a cache entry exactly when its item
\* was fetched within the last 10 minutes.
C14_EntryIffFetchedInWindow ==
    \A k \in Keys : k \in DOMAIN alredyChecked <=> FetchedInWindow(k)

\* C14: a key fetched within the last 10 minutes has a cache entry, every entry
\* carries the time of its key's latest fetch, and right after the sweep of a
\* poll cycle no entry is older than 10 minutes; between two sweeps an older
\* entry may still be in the cache.
C14_EntryWhileInWindow ==
    /\ \A k \in Keys : FetchedInWindow(k) => k \in DOMAIN alredyChecked
    /\ \A k \in DOMAIN alredyChecked :
           k \in DOMAIN fetchAge /\ alredyChecked[k] = fetchAge[k]
    /\ mainPc = "top" => \A k \in DOMAIN alredyChecked : FetchedInWindow(k)

\* an entry older than the window waits in the cache for the next sweep while
\* the other key's entry is inside the window
C14_Witness ==
    /\ \E k \in DOMAIN alredyChecked : alredyChecked[k] > Retention
    /\ \E k \in DOMAIN alredyChecked : alredyChecked[k] = Retention
    /\ mainPc = "fetching"

\* the lines of the body that have keyword k as a delimited substring
LinesWith(k) == {n \in 1..Len(body) : HasKeyword(n, k)}

\* the first of them, trimmed
FirstLineWith(k) ==
    LET with == LinesWith(k)
    IN  TrimSpace(body[CHOOSE n \in with : \A m \in with : n <= m])

\* the first line with k exists and, trimmed, contains an exception of k
Suppressed(k) ==
    /\ \E n \in 1..Len(body) : HasKeyword(n, k)
    /\ LET first == FirstLineWith(k)
       IN  \E j \in 1..Len(keywordsRegex[k].exceptions) :
               Contains(first, keywordsRegex[k].exceptions[j])

\* C15: the hits are exactly the keywords that have a first matching line which
\* is not suppressed, each with that trimmed first line as its value; a
\* suppressed keyword has no hit and takes no other keyword's hit away.
C15_FirstMatchingLineOnly ==
    result.evaluated =>
        \A k \in DOMAIN keywordsRegex :
            LET with == LinesWith(k)
                first == TrimSpace(body[CHOOSE n \in with : \A m \in with : n <= m])
                hit == k \in DOMAIN result.found
            IN  IF with = {} THEN ~hit
                ELSE IF \E j \in 1..Len(keywordsRegex[k].exceptions) :
                            Contains(first, keywordsRegex[k].exceptions[j])
                THEN ~hit
                ELSE hit /\ result.found[k] = first

\* one keyword is suppressed on its first matching line and another keyword is
\* still evaluated and hits
C15_Witness ==
    /\ result.evaluated
    /\ \E k1, k2 \in DOMAIN keywordsRegex :
          /\ k1 # k2
          /\ Suppressed(k1)
          /\ k2 \in DOMAIN result.found

\* C19: whatever order the range over keywordsRegex visits the keywords in, the
\* call returns the result at hand: the same keyword-to-line mapping and the
\* same matched flag, which is true exactly when the mapping is non-empty.
C19_OrderIndependent ==
    result.evaluated =>
        /\ \A o \in Orders(keywordsRegex) :
              LET r == checkKeywords(body, keywordsRegex, o)
              IN  /\ r.found = result.found
                  /\ r.status = result.status
        /\ result.status <=> DOMAIN result.found # {}

\* two keywords hit on different lines of one body, so that the two visiting
\* orders write the two entries in opposite order
C19_Witness ==
    /\ result.evaluated
    /\ Cardinality(Orders(keywordsRegex)) > 1
    /\ Cardinality(DOMAIN result.found) > 1
    /\ \E k1, k2 \in DOMAIN result.found : result.found[k1] # result.found[k2]

\* main is inside the handling of one item: in p.fetch, at a send that the
\* fetch caused, or in the delay after it
InItem == mainPc \in {"fetching", "fetchErrSend", "outSend", "delay"}

\* C16: items are handled one at a time in list order: a fetch starts only
\* from the item loop, for the unseen key at the loop's current position; while
\* that item is handled (fetch, sends, delay) the position and the list stay
\* put; the position moves by one only, after the delay of a fetched item or
\* past a key that is in the cache; so the fetch at a position starts after
\* the fetch and delay of every earlier unseen position are over.
C16_OneAtATimeInListOrder ==
    [][/\ (mainPc' = "fetching" /\ mainPc # "fetching") =>
              /\ mainPc = "items"
              /\ idx <= Len(pastes)
              /\ pastes[idx] \notin DOMAIN alredyChecked
              /\ idx' = idx
       /\ InItem => pastes' = pastes /\ (idx' = idx \/ mainPc = "delay")
       /\ (idx' # idx /\ mainPc # "listing") =>
              /\ idx' = idx + 1
              /\ pastes' = pastes
              /\ mainPc' = "items"
              /\ \/ mainPc = "delay"
                 \/ mainPc = "items" /\ pastes[idx] \in DOMAIN alredyChecked]_vars

\* the fetch of the second listed item is under way after the first item of
\* the same list was fetched
C16_Witness ==
    /\ mainPc = "fetching"
    /\ idx = 2
    /\ fetchAge[pastes[1]] = 0
    /\ fetchAge[pastes[2]] = 0

\* C17: every way out of an item fetch leads into the delay before the loop
\* does anything else: directly, after the paste was handed to the output
\* worker, or, on a failed fetch, after the error was handed to the error
\* worker; only the delay leads on to the next item.
C17_DelayAfterEveryFetch ==
    [][/\ (mainPc = "fetching" /\ mainPc' # "fetching") =>
              mainPc' \in {"delay", "fetchErrSend", "outSend"}
       /\ (mainPc = "fetchErrSend" /\ mainPc' # "fetchErrSend") =>
              /\ mainPc' = "delay"
              /\ errPc = "recv" /\ errPc' = "log"
              /\ errPending' = errPending + 1
       /\ (mainPc = "outSend" /\ mainPc' # "outSend") => mainPc' = "delay"
       /\ (mainPc = "delay" /\ mainPc' # "delay") =>
              mainPc' = "items" /\ idx' = idx + 1
       /\ (InItem /\ mainPc # "delay") => idx' = idx
       /\ InItem => UNCHANGED <<pastes, alredyChecked, sinceCheck>>
                       \/ (mainPc' = mainPc /\ pastes' = pastes)]_vars

\* the error of a failed fetch is with the error worker and the delay is being
\* taken
C17_Witness ==
    /\ mainPc = "delay"
    /\ errPc = "log"
    /\ errPending = 1
    /\ outPc = "recv"
    /\ fetchAge[pastes[idx]] = 0
    /\ ~terminate

\* the signal goroutine takes an interrupt up while an earlier one was delivered
LaterInterruptTaken == interrupted /\ sigPc = "recv" /\ sigPc' = "print"

\* C18: an interrupt after the first changes nothing the first alone did not
\* change: terminate is never reset, and when a later interrupt is taken up
\* the flag is already set, so that its `terminate = true` and whatever follows
\* from it (the loop exit, the closing of the routes) are the first one's doing.
C18_LaterInterruptChangesNothing ==
    [][/\ terminate => terminate'
       /\ LaterInterruptTaken =>
              /\ terminate
              /\ UNCHANGED <<terminate, ctxCancelled, outClosed, errClosed,
                             mainPc, outPc, errPc>>]_vars

====
